---------------------------- MODULE Spec2Model ----------------------------
(***************************************************************************)
(* A model of pgn_to_book.py: Zobrist key generation, position hashing,    *)
(* move classification, the aggregation loop of process_pgn_file and the   *)
(* serialisation done by write_book_file.                                  *)
(*                                                                         *)
(* Representation choices:                                                 *)
(*  - a 64-bit output of the seeded generator is the pair <<seed, n>>: the *)
(*    n-th 64-bit draw after seeding with seed.  A hash, the XOR of such   *)
(*    outputs, is the set of the outputs that occur an odd number of times *)
(*    in it, so XOR is symmetric difference.                               *)
(*  - a board is the part of a python-chess Board the program reads:       *)
(*    the pieces by square, the castling rights (as rook squares), the     *)
(*    side to move and the en-passant square.                              *)
(*  - a dict is an insertion-ordered sequence of <<key, value>> items.     *)
(***************************************************************************)
EXTENDS Integers, Sequences, FiniteSets, TLC

VARIABLES
    rng,          \* state of the global generator of module random
    calls,        \* the key tables returned by the calls of generate_zobrist_keys
    min_elo,      \* process_pgn_file: argument
    max_moves,    \* process_pgn_file: argument
    pc,           \* where the program is
    remaining,    \* iterations left of `for _ in range(game_count)`
    game,         \* index in Pool of the game read last (0: none yet)
    board,        \* process_pgn_file: local board
    move_count,   \* process_pgn_file: local move_count
    positions,    \* process_pgn_file: the table
    seen,         \* history: how many times each game of Pool was read
    recorded,     \* history: the entries built for the current game, with their ply
    out,          \* write_book_file: what was written to the file
    entry_count,  \* write_book_file: local entry_count
    ret,          \* write_book_file: the value returned to the caller
    cmove,        \* classification: the move handed to get_move_type
    cresult       \* classification: what get_move_type returned

vars == <<rng, calls, min_elo, max_moves, pc, remaining, game, board, move_count,
          positions, seen, recorded, out, entry_count, ret, cmove, cresult>>

Min(a, b) == IF a < b THEN a ELSE b
Abs(x) == IF x < 0 THEN -x ELSE x

(***************************************************************************)
(* Key generation                                                          *)
(***************************************************************************)
Seed == 1804289383

\* random.seed(s): the generator restarts the stream of s
random_seed(s) == [seed |-> s, drawn |-> 0]

\* the value of the n-th getrandbits(64) that follows the current state
getrandbits(r, n) == <<r.seed, r.drawn + n>>

NumPieces == 12
NumSquares == 64
NumCastling == 4

generate_zobrist_keys(r) ==
    [piece_keys    |-> [p \in 0..(NumPieces - 1) |->
                          [s \in 0..(NumSquares - 1) |-> getrandbits(r, p * NumSquares + s)]],
     castling_keys |-> [i \in 0..(NumCastling - 1) |->
                          getrandbits(r, NumPieces * NumSquares + i)],
     side_key      |-> getrandbits(r, NumPieces * NumSquares + NumCastling),
     rng           |-> [r EXCEPT !.drawn = @ + NumPieces * NumSquares + NumCastling + 1]]

\* the module-level statements of lines 10 and 25
Imported == generate_zobrist_keys(random_seed(Seed))
PIECE_KEYS == Imported.piece_keys
CASTLING_KEYS == Imported.castling_keys
SIDE_KEY == Imported.side_key

(***************************************************************************)
(* Boards and moves (the part of python-chess the program uses)            *)
(***************************************************************************)
PAWN == 1
KNIGHT == 2
BISHOP == 3
ROOK == 4
QUEEN == 5
WHITE == TRUE
BLACK == FALSE

\* what board.piece_at gives for an empty square (Python's None)
NoPiece == [piece_type |-> 0, color |-> BLACK]
IsNone(p) == p.piece_type = 0

square_file(s) == s % 8
square_rank(s) == s \div 8

\* board.piece_at(square): None or a piece with its type and colour
piece_at(b, s) ==
    LET c == IF s \in DOMAIN b.sq THEN b.sq[s] ELSE "." IN
    CASE c = "P" -> [piece_type |-> PAWN,   color |-> WHITE]
      [] c = "N" -> [piece_type |-> KNIGHT, color |-> WHITE]
      [] c = "B" -> [piece_type |-> BISHOP, color |-> WHITE]
      [] c = "R" -> [piece_type |-> ROOK,   color |-> WHITE]
      [] c = "Q" -> [piece_type |-> QUEEN,  color |-> WHITE]
      [] c = "K" -> [piece_type |-> 6,      color |-> WHITE]
      [] c = "p" -> [piece_type |-> PAWN,   color |-> BLACK]
      [] c = "n" -> [piece_type |-> KNIGHT, color |-> BLACK]
      [] c = "b" -> [piece_type |-> BISHOP, color |-> BLACK]
      [] c = "r" -> [piece_type |-> ROOK,   color |-> BLACK]
      [] c = "q" -> [piece_type |-> QUEEN,  color |-> BLACK]
      [] c = "k" -> [piece_type |-> 6,      color |-> BLACK]
      [] OTHER   -> NoPiece

piece_type_at(b, s) == piece_at(b, s).piece_type

\* the character python-chess prints for a piece
symbol(t, color) ==
    LET w == <<"P", "N", "B", "R", "Q", "K">>
        k == <<"p", "n", "b", "r", "q", "k">>
    IN IF color = WHITE THEN w[t] ELSE k[t]

\* a piece of colour `color` stands on s
occupied_co(b, color, s) ==
    LET p == piece_at(b, s) IN ~IsNone(p) /\ p.color = color

is_en_passant(b, m) ==
    /\ b.ep = m.to_square
    /\ piece_type_at(b, m.from_square) = PAWN
    /\ Abs(m.to_square - m.from_square) \in {7, 9}
    /\ IsNone(piece_at(b, m.to_square))

\* python-chess: a piece of the side not to move stands on a touched square,
\* or the move is an en-passant capture
is_capture(b, m) ==
    \/ /\ m.from_square # m.to_square
       /\ \E s \in {m.from_square, m.to_square} : occupied_co(b, ~b.turn, s)
    \/ is_en_passant(b, m)

\* python-chess: a king that moves more than one file, or onto a rook of its side
is_castling(b, m) ==
    /\ piece_type_at(b, m.from_square) = 6
    /\ \/ Abs(square_file(m.from_square) - square_file(m.to_square)) > 1
       \/ /\ piece_type_at(b, m.to_square) = ROOK
          /\ occupied_co(b, b.turn, m.to_square)

\* castling rights are the squares of the rooks that may still castle
has_kingside_castling_rights(b, color) ==
    IF color = WHITE THEN 7 \in b.castling ELSE 63 \in b.castling

has_queenside_castling_rights(b, color) ==
    IF color = WHITE THEN 0 \in b.castling ELSE 56 \in b.castling

\* board.push(move) for a legal move of standard chess
push(b, m) ==
    LET f == m.from_square
        t == m.to_square
        p == piece_at(b, f)
        castle == is_castling(b, m)
        ep == is_en_passant(b, m)
        back == IF b.turn = WHITE THEN 0 ELSE 56
        kingside == square_file(t) > square_file(f)
        kingTo == back + (IF kingside THEN 6 ELSE 2)
        rookFrom == back + (IF kingside THEN 7 ELSE 0)
        rookTo == back + (IF kingside THEN 5 ELSE 3)
        down == IF b.turn = WHITE THEN -8 ELSE 8
        placed == IF m.promotion # 0 THEN symbol(m.promotion, b.turn) ELSE b.sq[f]
        removed == IF castle THEN {f, t, rookFrom}
                   ELSE IF ep THEN {f, t + down} ELSE {f}
        added == IF castle
                 THEN (kingTo :> symbol(6, b.turn)) @@ (rookTo :> symbol(ROOK, b.turn))
                 ELSE (t :> placed)
        sq1 == [s \in (DOMAIN b.sq \ removed) \cup DOMAIN added |->
                  IF s \in DOMAIN added THEN added[s] ELSE b.sq[s]]
        lost == {f, t} \cup (IF p.piece_type = 6 THEN {back, back + 7} ELSE {})
    IN [sq       |-> sq1,
        castling |-> b.castling \ lost,
        turn     |-> ~b.turn,
        ep       |-> IF p.piece_type = PAWN /\ Abs(t - f) = 16
                     THEN f - down ELSE -1]

(***************************************************************************)
(* Hashing and classification                                              *)
(***************************************************************************)
\* the value of 0 ^ t[1] ^ ... ^ t[n]: the keys met an odd number of times
XorAll(t) ==
    {k \in {t[i] : i \in DOMAIN t} : Cardinality({i \in DOMAIN t : t[i] = k}) % 2 = 1}

\* what `h ^= k` is run with, in the order of lines 66-84
HashTerms(b) ==
    LET piece_idx(piece) == (piece.piece_type - 1) + (IF ~piece.color THEN 6 ELSE 0)
        squares == SelectSeq([i \in 1..NumSquares |-> i - 1],
                             LAMBDA s : piece_at(b, s) # NoPiece)
        pieces == [i \in 1..Len(squares) |->
                     PIECE_KEYS[piece_idx(piece_at(b, squares[i]))][squares[i]]]
        wk == IF has_kingside_castling_rights(b, WHITE) THEN <<CASTLING_KEYS[0]>> ELSE <<>>
        wq == IF has_queenside_castling_rights(b, WHITE) THEN <<CASTLING_KEYS[1]>> ELSE <<>>
        bk == IF has_kingside_castling_rights(b, BLACK) THEN <<CASTLING_KEYS[2]>> ELSE <<>>
        bq == IF has_queenside_castling_rights(b, BLACK) THEN <<CASTLING_KEYS[3]>> ELSE <<>>
        side == IF b.turn THEN <<SIDE_KEY>> ELSE <<>>
    IN pieces \o wk \o wq \o bk \o bq \o side

calculate_hash(b) == XorAll(HashTerms(b))

\* get_move_type with the promotion test moved to the front
get_move_type_promotion_first(b, m) ==
    IF m.promotion # 0 THEN 2
    ELSE IF is_capture(b, m) THEN 1
    ELSE IF is_castling(b, m) THEN 6
    ELSE IF piece_type_at(b, m.from_square) = PAWN
            /\ Abs(m.from_square - m.to_square) = 16 THEN 4
    ELSE 0

get_move_type(b, m) ==
    IF is_capture(b, m) THEN 1
    ELSE IF is_castling(b, m) THEN 6
    ELSE IF m.promotion # 0 THEN 2
    ELSE IF piece_type_at(b, m.from_square) = PAWN
            /\ Abs(m.from_square - m.to_square) = 16 THEN 4
    ELSE 0

get_piece_type(b, s) ==
    LET piece == piece_at(b, s)
        offset == IF piece.color = WHITE THEN 0 ELSE 6
    IN IF IsNone(piece) THEN 0 ELSE piece.piece_type + offset

\* the dict literal of lines 130-135
promotion_code(pt) ==
    CASE pt = QUEEN -> 1 [] pt = ROOK -> 2 [] pt = BISHOP -> 3 [] pt = KNIGHT -> 4

\* lines 124-142: the entry built for move m on board b, with its weight of 1
OpeningBookEntry(b, m) ==
    [hash      |-> calculate_hash(b),
     source    |-> m.from_square,
     target    |-> m.to_square,
     promotion |-> IF m.promotion # 0 THEN promotion_code(m.promotion) ELSE 0,
     move_type |-> get_move_type(b, m),
     piece     |-> get_piece_type(b, m.from_square),
     weight    |-> 1]

move_key(e) == <<e.source, e.target, e.promotion, e.move_type, e.piece>>

(***************************************************************************)
(* The table: defaultdict(dict), each dict in insertion order              *)
(***************************************************************************)
\* the index of key k in dict d, 0 when absent
IndexOf(d, k) ==
    IF \E i \in 1..Len(d) : d[i][1] = k
    THEN CHOOSE i \in 1..Len(d) : d[i][1] = k
    ELSE 0

\* d[k] = v
DictSet(d, k, v) ==
    LET i == IndexOf(d, k) IN
    IF i = 0 THEN Append(d, <<k, v>>) ELSE [d EXCEPT ![i] = <<k, v>>]

increment_weight(e) == [e EXCEPT !.weight = @ + 1]

\* lines 143-146 without the test of line 143: the entry is stored anew each time
Record_overwrite(t, e) ==
    LET key == e.hash
        i == IndexOf(t, key)
        bucket == IF i = 0 THEN <<>> ELSE t[i][2]
    IN DictSet(t, key, DictSet(bucket, move_key(e), e))

\* lines 143-146
Record(t, e) ==
    LET key == e.hash
        i == IndexOf(t, key)
        bucket == IF i = 0 THEN <<>> ELSE t[i][2]
        j == IndexOf(bucket, move_key(e))
    IN IF j # 0
       THEN DictSet(t, key, [bucket EXCEPT ![j] = <<move_key(e), increment_weight(bucket[j][2])>>])
       ELSE DictSet(t, key, DictSet(bucket, move_key(e), e))

(***************************************************************************)
(* Game records: the rating headers as the strings of the file, the        *)
(* starting position and the mainline moves                                *)
(***************************************************************************)
Digits == <<"0", "1", "2", "3", "4", "5", "6", "7", "8", "9">>
IsDigit(c) == \E d \in 1..Len(Digits) : Digits[d] = c
DigitValue(c) == (CHOOSE d \in 1..Len(Digits) : Digits[d] = c) - 1

RECURSIVE Strip(_)
\* str.strip(), which int() applies to its argument
Strip(s) ==
    IF s = <<>> THEN s
    ELSE IF s[1] = " " THEN Strip(Tail(s))
    ELSE IF s[Len(s)] = " " THEN Strip(SubSeq(s, 1, Len(s) - 1))
    ELSE s

RECURSIVE DecimalValue(_, _)
DecimalValue(s, acc) ==
    IF s = <<>> THEN acc
    ELSE IF s[1] = "_" THEN DecimalValue(Tail(s), acc)
    ELSE DecimalValue(Tail(s), 10 * acc + DigitValue(s[1]))

\* int(s) of a string: the value, or ValueError
int(s) ==
    LET t == Strip(s)
        signed == t # <<>> /\ t[1] \in {"+", "-"}
        body == IF signed THEN Tail(t) ELSE t
        wellFormed ==
            /\ body # <<>>
            /\ \A i \in 1..Len(body) :
                 \/ IsDigit(body[i])
                 \/ /\ body[i] = "_"
                    /\ 1 < i /\ i < Len(body)
                    /\ IsDigit(body[i - 1]) /\ IsDigit(body[i + 1])
        magnitude == DecimalValue(body, 0)
    IN IF wellFormed
       THEN [ValueError |-> FALSE,
             value |-> IF signed /\ t[1] = "-" THEN -magnitude ELSE magnitude]
       ELSE [ValueError |-> TRUE, value |-> 0]

\* game.headers.get(k, default)
headers_get(h, k, default) == IF k \in DOMAIN h THEN h[k] ELSE default

Move(f, t, promo) == [from_square |-> f, to_square |-> t, promotion |-> promo]

EmptyRank == <<".", ".", ".", ".", ".", ".", ".", ".">>

\* the pieces of a position given rank by rank from a1, "." an empty square
Pieces(ranks) == [s \in {i - 1 : i \in {j \in 1..Len(ranks) : ranks[j] # "."}} |-> ranks[s + 1]]

\* chess.Board(): the standard starting position
StartBoard ==
    [sq |-> Pieces(<<"R", "N", "B", "Q", "K", "B", "N", "R">>
            \o <<"P", "P", "P", "P", "P", "P", "P", "P">>
            \o EmptyRank \o EmptyRank \o EmptyRank \o EmptyRank
            \o <<"p", "p", "p", "p", "p", "p", "p", "p">>
            \o <<"r", "n", "b", "q", "k", "b", "n", "r">>),
     castling |-> {0, 7, 56, 63},
     turn |-> WHITE,
     ep |-> -1]

\* FEN r3k3/1P6/8/8/8/8/8/4K2R w K - 0 1
PromotionBoard ==
    [sq |-> Pieces(<<".", ".", ".", ".", "K", ".", ".", "R">>
            \o EmptyRank \o EmptyRank \o EmptyRank \o EmptyRank \o EmptyRank
            \o <<".", "P", ".", ".", ".", ".", ".", ".">>
            \o <<"r", ".", ".", ".", "k", ".", ".", ".">>),
     castling |-> {7},
     turn |-> WHITE,
     ep |-> -1]

\* FEN 4k3/3p4/8/4P3/8/8/8/4K3 b - - 0 1
EnPassantBoard ==
    [sq |-> Pieces(<<".", ".", ".", ".", "K", ".", ".", ".">>
            \o EmptyRank \o EmptyRank \o EmptyRank
            \o <<".", ".", ".", ".", "P", ".", ".", ".">>
            \o EmptyRank
            \o <<".", ".", ".", "p", ".", ".", ".", ".">>
            \o <<".", ".", ".", ".", "k", ".", ".", ".">>),
     castling |-> {},
     turn |-> BLACK,
     ep |-> -1]

Rated(w, b) == [WhiteElo |-> w, BlackElo |-> b]

\* the games an input file is made of
Pool ==
    << \* 1. e4 e5 2. Nf3
       [headers |-> Rated(<<"2", "5", "0", "0">>, <<"2", "4", "0", "0">>),
        start |-> StartBoard,
        moves |-> <<Move(12, 28, 0), Move(52, 36, 0), Move(6, 21, 0)>>],
       \* 1. e4 c5
       [headers |-> Rated(<<"2", "2", "0", "0">>, <<"2", "_", "3", "0", "0">>),
        start |-> StartBoard,
        moves |-> <<Move(12, 28, 0), Move(50, 34, 0)>>],
       \* 1. Nf3 Nf6 2. Ng1 Ng8 3. e4: the starting position comes back
       [headers |-> Rated(<<" ", "2", "6", "0", "0">>, <<"+", "2", "6", "0", "0">>),
        start |-> StartBoard,
        moves |-> <<Move(6, 21, 0), Move(62, 45, 0), Move(21, 6, 0), Move(45, 62, 0),
                    Move(12, 28, 0)>>],
       \* 1. bxa8=Q+ Ke7 2. O-O
       [headers |-> Rated(<<"2", "5", "0", "0">>, <<"2", "5", "0", "0">>),
        start |-> PromotionBoard,
        moves |-> <<Move(49, 56, QUEEN), Move(60, 52, 0), Move(4, 6, 0)>>],
       \* 1... d5 2. exd6 e.p.
       [headers |-> Rated(<<"2", "2", "0", "0">>, <<"2", "2", "0", "0">>),
        start |-> EnPassantBoard,
        moves |-> <<Move(51, 35, 0), Move(36, 43, 0)>>],
       \* one side rated too low
       [headers |-> Rated(<<"2", "5", "0", "0">>, <<"1", "5", "0", "0">>),
        start |-> StartBoard,
        moves |-> <<Move(11, 27, 0)>>],
       \* a rating that is no number
       [headers |-> Rated(<<"?">>, <<"2", "5", "0", "0">>),
        start |-> StartBoard,
        moves |-> <<Move(11, 27, 0)>>],
       \* no BlackElo header
       [headers |-> [WhiteElo |-> <<"2", "5", "0", "0">>],
        start |-> StartBoard,
        moves |-> <<Move(10, 26, 0)>>] >>

Games == 1..Len(Pool)

\* lines 108-112: the two ratings, or ValueError
Ratings(g) ==
    LET w == int(headers_get(g.headers, "WhiteElo", <<"0">>))
        b == int(headers_get(g.headers, "BlackElo", <<"0">>))
    IN [ValueError |-> w.ValueError \/ b.ValueError,
        white_elo |-> w.value,
        black_elo |-> b.value]

\* line 114 looking at White's rating alone
BelowMinimum_white_only(g, min) == Ratings(g).white_elo < min

\* line 114
BelowMinimum(g, min) ==
    LET r == Ratings(g) IN Min(r.white_elo, r.black_elo) < min

(***************************************************************************)
(* write_book_file                                                         *)
(***************************************************************************)
RECURSIVE to_bytes(_, _)
\* v.to_bytes(n, byteorder='little') when v fits
to_bytes(v, n) == IF n = 0 THEN <<>> ELSE <<v % 256>> \o to_bytes(v \div 256, n - 1)

RECURSIVE Fits(_, _)
\* v.to_bytes(n, ...) raises OverflowError unless 0 <= v < 256^n
Fits(v, n) == IF n = 0 THEN v = 0 ELSE v >= 0 /\ Fits(v \div 256, n - 1)

\* 0x7262_6F6F_6B69_6E67, most significant byte first
MagicBytes == <<114, 98, 111, 111, 107, 105, 110, 103>>
Version == 1

RECURSIVE Values(_)
\* the values of a dict, in its order
Values(d) == IF d = <<>> THEN <<>> ELSE <<d[1][2]>> \o Values(Tail(d))

RECURSIVE Entries(_)
\* the entries in the order of the two loops of lines 173-174
Entries(t) == IF t = <<>> THEN <<>> ELSE Values(t[1][2]) \o Entries(Tail(t))

\* lines 176-181: the fields written before the weight; the hash is a
\* 64-bit value and is kept as it is
RecordHead(e) ==
    [hash      |-> e.hash,
     source    |-> to_bytes(e.source, 1),
     target    |-> to_bytes(e.target, 1),
     promotion |-> to_bytes(e.promotion, 1),
     move_type |-> to_bytes(e.move_type, 1),
     piece     |-> to_bytes(e.piece, 1)]

\* lines 176-185
BookRecord(e) ==
    [head    |-> RecordHead(e),
     weight  |-> to_bytes(e.weight, 2),
     learn   |-> to_bytes(0, 2),
     padding |-> to_bytes(0, 7)]

\* what write_book_file(t) leaves behind
write_book_file(t) ==
    LET es == Entries(t)
        bad == {i \in 1..Len(es) : ~Fits(es[i].weight, 2)}
        n == IF bad = {} THEN Len(es)
             ELSE (CHOOSE i \in bad : \A j \in bad : i <= j) - 1
    IN [header      |-> <<MagicBytes, to_bytes(Version, 4)>>,
        records     |-> [i \in 1..n |-> BookRecord(es[i])],
        torn        |-> IF bad = {} THEN <<>> ELSE <<RecordHead(es[n + 1])>>,
        entry_count |-> n,
        raised      |-> bad # {}]

(***************************************************************************)
(* The program                                                             *)
(***************************************************************************)
MaxGames == 3
MainMinElo == 2200
DefaultMaxMoves == 20
MinEloChoices == {0, MainMinElo}
MaxMovesChoices == {0, 2, DefaultMaxMoves}

Unbound == [sq |-> <<>>, castling |-> {}, turn |-> WHITE, ep |-> -1]
NoValue == [kind |-> "unset", value |-> 0]
PyNone == [kind |-> "None", value |-> 0]
Closed == [header |-> <<>>, records |-> <<>>, torn |-> <<>>]

InitIdle ==
    /\ rng = Imported.rng
    /\ calls = <<>>
    /\ game = 0
    /\ board = Unbound
    /\ move_count = 0
    /\ positions = <<>>
    /\ seen = [g \in Games |-> 0]
    /\ recorded = <<>>
    /\ out = Closed
    /\ entry_count = 0
    /\ ret = NoValue
    /\ cmove = Move(0, 0, 0)
    /\ cresult = -1

Init ==
    /\ InitIdle
    /\ pc = "read"
    /\ min_elo \in MinEloChoices
    /\ max_moves \in MaxMovesChoices
    /\ remaining \in 0..MaxGames

\* lines 103-115, the game read being Pool[g]
Read(g) ==
    /\ pc = "read"
    /\ remaining > 0
    /\ remaining' = remaining - 1
    /\ game' = g
    /\ seen' = [seen EXCEPT ![g] = @ + 1]
    /\ UNCHANGED <<rng, calls, min_elo, max_moves, out, entry_count, ret, cmove, cresult>>

\* line 112
SkipInvalid(g) ==
    /\ Read(g)
    /\ Ratings(Pool[g]).ValueError
    /\ UNCHANGED <<pc, board, move_count, positions, recorded>>

\* line 115
SkipLow(g) ==
    /\ Read(g)
    /\ ~Ratings(Pool[g]).ValueError
    /\ BelowMinimum(Pool[g], min_elo)
    /\ UNCHANGED <<pc, board, move_count, positions, recorded>>

\* lines 117-118
Admit(g) ==
    /\ Read(g)
    /\ ~Ratings(Pool[g]).ValueError
    /\ ~BelowMinimum(Pool[g], min_elo)
    /\ board' = Pool[g].start
    /\ move_count' = 0
    /\ recorded' = <<>>
    /\ pc' = "replay"
    /\ UNCHANGED positions

\* lines 120-122 with > for >=
Continues_one_more(moves, count, max) == count < Len(moves) /\ count <= max

\* lines 120-122: the loop goes on to its body
Continues(moves, count, max) == count < Len(moves) /\ count < max

\* lines 124-148 with the push of line 148 done first
LoopBody_push_first(t, b, m) ==
    LET entry == OpeningBookEntry(push(b, m), m)
    IN [entry |-> entry, positions |-> Record(t, entry), board |-> push(b, m)]

\* lines 124-148: one turn of the loop on move m
LoopBody(t, b, m) ==
    LET entry == OpeningBookEntry(b, m)
    IN [entry |-> entry, positions |-> Record(t, entry), board |-> push(b, m)]

Ply ==
    /\ pc = "replay"
    /\ Continues(Pool[game].moves, move_count, max_moves)
    /\ LET r == LoopBody(positions, board, Pool[game].moves[move_count + 1])
       IN /\ positions' = r.positions
          /\ board' = r.board
          /\ recorded' = Append(recorded, [ply |-> move_count, entry |-> r.entry])
    /\ move_count' = move_count + 1
    /\ UNCHANGED <<rng, calls, min_elo, max_moves, pc, remaining, game, seen,
                   out, entry_count, ret, cmove, cresult>>

\* line 122, or the moves are exhausted
EndGame ==
    /\ pc = "replay"
    /\ ~Continues(Pool[game].moves, move_count, max_moves)
    /\ pc' = "read"
    /\ UNCHANGED <<rng, calls, min_elo, max_moves, remaining, game, board, move_count,
                   positions, seen, recorded, out, entry_count, ret, cmove, cresult>>

\* the loop of line 102 is over, line 151
LoopEnd ==
    /\ pc = "read"
    /\ remaining = 0
    /\ pc' = "write"
    /\ UNCHANGED <<rng, calls, min_elo, max_moves, remaining, game, board, move_count,
                   positions, seen, recorded, out, entry_count, ret, cmove, cresult>>

\* lines 104-105: read_game found no game
EndOfStream ==
    /\ pc = "read"
    /\ remaining > 0
    /\ pc' = "write"
    /\ UNCHANGED <<rng, calls, min_elo, max_moves, remaining, game, board, move_count,
                   positions, seen, recorded, out, entry_count, ret, cmove, cresult>>

\* line 200: write_book_file(positions, book_path)
WriteBook ==
    /\ pc = "write"
    /\ LET w == write_book_file(positions)
       IN /\ out' = [header |-> w.header, records |-> w.records, torn |-> w.torn]
          /\ entry_count' = w.entry_count
          /\ ret' = IF w.raised THEN ret ELSE PyNone
          /\ pc' = IF w.raised THEN "OverflowError" ELSE "done"
    /\ UNCHANGED <<rng, calls, min_elo, max_moves, remaining, game, board, move_count,
                   positions, seen, recorded, cmove, cresult>>

ReadGame == \E g \in Games : SkipInvalid(g) \/ SkipLow(g) \/ Admit(g)

Next == ReadGame \/ Ply \/ EndGame \/ LoopEnd \/ EndOfStream \/ WriteBook

Spec == Init /\ [][Next]_vars

(***************************************************************************)
(* One input file: the same admitted one-ply game over and over, read with *)
(* main()'s minimum rating                                                 *)
(***************************************************************************)
RepeatedGames == 65536

InitRepeated ==
    /\ InitIdle
    /\ pc = "read"
    /\ min_elo = MainMinElo
    /\ max_moves = 1
    /\ remaining = RepeatedGames

NextRepeated ==
    \/ \E g \in {x \in Games : Pool[x].start = EnPassantBoard} : Admit(g)
    \/ Ply
    \/ EndGame
    \/ LoopEnd
    \/ WriteBook

SpecRepeated == InitRepeated /\ [][NextRepeated]_vars

(***************************************************************************)
(* Calls of generate_zobrist_keys, and of random.seed, in one process      *)
(***************************************************************************)
MaxCalls == 3
Seeds == {Seed, 1, 2}

InitKeys ==
    /\ InitIdle
    /\ pc = "keys"
    /\ min_elo = MainMinElo
    /\ max_moves = DefaultMaxMoves
    /\ remaining = 0

\* random.seed(s)
Reseed(s) ==
    /\ pc = "keys"
    /\ rng' = random_seed(s)
    /\ UNCHANGED <<calls, min_elo, max_moves, pc, remaining, game, board, move_count,
                   positions, seen, recorded, out, entry_count, ret, cmove, cresult>>

\* generate_zobrist_keys(), with the seed the generator was last given
Generate ==
    /\ pc = "keys"
    /\ Len(calls) < MaxCalls
    /\ LET r == generate_zobrist_keys(rng)
       IN /\ calls' = Append(calls, [seed |-> rng.seed,
                                     piece_keys |-> r.piece_keys,
                                     castling_keys |-> r.castling_keys,
                                     side_key |-> r.side_key])
          /\ rng' = r.rng
    /\ UNCHANGED <<min_elo, max_moves, pc, remaining, game, board, move_count,
                   positions, seen, recorded, out, entry_count, ret, cmove, cresult>>

NextKeys == (\E s \in Seeds : Reseed(s)) \/ Generate

\* line 10 has run, line 25 has not
SpecKeys ==
    /\ InitKeys
    /\ [][NextKeys]_vars

(***************************************************************************)
(* get_move_type on boards of two pieces                                   *)
(***************************************************************************)
\* the mover on square f, something or nothing on square t
TwoPieces(mover, f, other, t, turn, ep) ==
    [sq |-> IF other = "." THEN (f :> mover) ELSE (f :> mover) @@ (t :> other),
     castling |-> {},
     turn |-> turn,
     ep |-> ep]

ClassifyFrom == {4, 12, 36, 52}
ClassifyTo == {6, 5, 28, 20, 43, 45, 60, 36}

InitClassify ==
    /\ rng = Imported.rng
    /\ calls = <<>>
    /\ game = 0
    /\ move_count = 0
    /\ positions = <<>>
    /\ seen = [g \in Games |-> 0]
    /\ recorded = <<>>
    /\ out = Closed
    /\ entry_count = 0
    /\ ret = NoValue
    /\ min_elo = MainMinElo
    /\ max_moves = DefaultMaxMoves
    /\ remaining = 0
    /\ pc = "classify"
    /\ cresult = -1
    /\ \E f \in ClassifyFrom, t \in ClassifyTo :
         /\ f # t
         /\ cmove \in {Move(f, t, p) : p \in {0, QUEEN, KNIGHT}}
         /\ board \in {TwoPieces(mover, f, other, t, turn, ep) :
                         mover \in {"P", "K", "N", "p"},
                         other \in {".", "p", "R", "n"},
                         turn \in BOOLEAN,
                         ep \in {-1, t}}

Classify ==
    /\ pc = "classify"
    /\ cresult' = get_move_type(board, cmove)
    /\ pc' = "classified"
    /\ UNCHANGED <<rng, calls, min_elo, max_moves, remaining, game, board, move_count,
                   positions, seen, recorded, out, entry_count, ret, cmove>>

SpecClassify == InitClassify /\ [][Classify]_vars

(***************************************************************************)
(* What the program is expected to compute                                 *)
(***************************************************************************)
RECURSIVE Replay(_, _)
\* the position reached by the first k moves of game g
Replay(g, k) == IF k = 0 THEN g.start ELSE push(Replay(g, k - 1), g.moves[k])

\* the positions of each game of Pool, before its first move and after each move
GamePositions == [g \in Games |-> [k \in 0..Len(Pool[g].moves) |-> Replay(Pool[g], k)]]

\* the ratings of each game of Pool
GameRatings == [g \in Games |-> Ratings(Pool[g])]

\* game g of Pool has two numbers for ratings, neither below min_elo
Admitted(g) ==
    /\ ~GameRatings[g].ValueError
    /\ GameRatings[g].white_elo >= min_elo
    /\ GameRatings[g].black_elo >= min_elo

Identity(e) == <<e.hash, e.source, e.target, e.promotion, e.move_type, e.piece>>

\* the identity of each move of each game of Pool, taken on the position before it
GameIdentities ==
    [g \in Games |-> [k \in 1..Len(Pool[g].moves) |->
        Identity(OpeningBookEntry(GamePositions[g][k - 1], Pool[g].moves[k]))]]

\* the identities game g of Pool is to contribute, one per ply under the cap
Observations(g) ==
    IF Admitted(g)
    THEN SubSeq(GameIdentities[g], 1, Min(Len(Pool[g].moves), max_moves))
    ELSE <<>>

Occurrences(id, obs) == Cardinality({k \in DOMAIN obs : obs[k] = id})

RECURSIVE ObservedUpTo(_, _)
\* how often identity id was observed in the games read so far, games 1..n of Pool
ObservedUpTo(id, n) ==
    IF n = 0 THEN 0
    ELSE ObservedUpTo(id, n - 1) + seen[n] * Occurrences(id, Observations(n))

Observed(id) == ObservedUpTo(id, Len(Pool))

ObservedIdentities ==
    UNION {{Observations(g)[k] : k \in DOMAIN Observations(g)} :
             g \in {x \in Games : seen[x] > 0}}

TableEntries == Entries(positions)

(***************************************************************************)
(* Claims                                                                  *)
(***************************************************************************)

\* C1: between two games and after the last one, the table holds exactly one
\* entry per identity (hash, source, target, promotion, move_type, piece)
\* observed in an admitted game under the ply cap, its weight is the number of
\* those observations, and the entries of one position hash share one bucket.
C1_Aggregation ==
    pc # "replay" =>
        LET es == TableEntries
            ids == [i \in 1..Len(es) |-> Identity(es[i])]
        IN /\ {ids[i] : i \in 1..Len(es)} = ObservedIdentities
           /\ \A i, j \in 1..Len(es) : ids[i] = ids[j] => i = j
           /\ \A i \in 1..Len(es) : es[i].weight = Observed(ids[i])
           /\ \A i, j \in 1..Len(positions) : positions[i][1] = positions[j][1] => i = j
           /\ \A i \in 1..Len(positions) : \A j \in 1..Len(positions[i][2]) :
                /\ positions[i][2][j][2].hash = positions[i][1]
                /\ positions[i][2][j][1] = move_key(positions[i][2][j][2])

\* C1 witness: one bucket holds an entry seen three times and another seen once
C1_Witness ==
    /\ pc = "write"
    /\ \E i \in 1..Len(positions) :
         \E j, k \in 1..Len(positions[i][2]) :
            /\ positions[i][2][j][2].weight = 3
            /\ positions[i][2][k][2].weight = 1

\* C2: reading a game whose ratings are both numbers and one of them is below
\* min_elo leaves the table as it was and goes on with the loop of the games.
C2_LowRatedSkipped ==
    [][(/\ seen' # seen
        /\ ~GameRatings[game'].ValueError
        /\ \/ GameRatings[game'].white_elo < min_elo
           \/ GameRatings[game'].black_elo < min_elo)
       => (/\ positions' = positions
           /\ pc' = "read"
           /\ remaining' = remaining - 1)]_vars

\* C2 witness: a game rated too low was read, the table holds nothing of it,
\* and the game after it is being replayed
C2_Witness ==
    /\ pc = "replay"
    /\ recorded # <<>>
    /\ Len(TableEntries) = Len(recorded)
    /\ \E g \in Games :
         /\ seen[g] > 0
         /\ ~GameRatings[g].ValueError
         /\ GameRatings[g].black_elo < min_elo

\* C3: a game with a rating header missing, or one that is no integer, is
\* never replayed, whatever min_elo is.
C3_MissingOrInvalidSkipped ==
    pc = "replay" =>
        \A k \in {"WhiteElo", "BlackElo"} :
            /\ k \in DOMAIN Pool[game].headers
            /\ ~int(Pool[game].headers[k]).ValueError

\* C4: the entries built for an admitted game come from the plies
\* 0 .. max_moves - 1 in turn, and once the game is over there is one for
\* each of its plies under the cap: all of them when the game is shorter.
C4_PlyCap ==
    (game # 0 /\ Admitted(game)) =>
        /\ \A i \in 1..Len(recorded) :
             recorded[i].ply = i - 1 /\ recorded[i].ply < max_moves
        /\ pc # "replay" =>
             Len(recorded) = Min(max_moves, Len(Pool[game].moves))

\* C4 witness: a game longer than the cap is over and stopped at the cap
C4_Witness ==
    /\ pc = "read"
    /\ game # 0
    /\ Admitted(game)
    /\ max_moves > 0
    /\ Len(Pool[game].moves) > max_moves
    /\ Len(recorded) = max_moves

\* C5: get_move_type returns the code of the first of capture (1), castling
\* (6), promotion (2) and pawn moving two ranks (4) that is true, 0 when none
\* is, and so always one of 0, 1, 2, 4, 6.
C5_FirstMatch ==
    pc = "classified" =>
        LET f == cmove.from_square
            t == cmove.to_square
            preds == << is_capture(board, cmove),
                        is_castling(board, cmove),
                        cmove.promotion # 0,
                        /\ piece_type_at(board, f) = PAWN
                        /\ square_file(f) = square_file(t)
                        /\ Abs(square_rank(f) - square_rank(t)) = 2 >>
            codes == <<1, 6, 2, 4>>
            hits == {i \in 1..4 : preds[i]}
        IN /\ cresult = IF hits = {} THEN 0
                        ELSE codes[CHOOSE i \in hits : \A j \in hits : i <= j]
           /\ cresult \in {0, 1, 2, 4, 6}

\* C5 witness: a capturing promotion was classified as a capture
C5_Witness ==
    /\ pc = "classified"
    /\ is_capture(board, cmove)
    /\ cmove.promotion # 0
    /\ cresult = 1

\* C6: when write_book_file is over, the records written are as many as the
\* entries of the table, the sum of the sizes of its buckets, and the k-th
\* record is the record of the k-th entry.
C6_OneRecordPerEntry ==
    pc \in {"done", "OverflowError"} =>
        /\ Len(out.records) = Len(TableEntries)
        /\ \A k \in 1..Len(out.records) : out.records[k] = BookRecord(TableEntries[k])

\* C7: two key tables generated with the same seed are equal.
C7_SameSeedSameKeys ==
    \A i, j \in 1..Len(calls) :
        calls[i].seed = calls[j].seed =>
            /\ calls[i].piece_keys = calls[j].piece_keys
            /\ calls[i].castling_keys = calls[j].castling_keys
            /\ calls[i].side_key = calls[j].side_key

\* C8: write_book_file returns entry_count.
C8_ReturnsEntryCount ==
    pc = "done" => ret = [kind |-> "int", value |-> entry_count]

\* C9: while an admitted game is replayed the board is the position after its
\* first move_count moves, and the k-th entry built for it has the hash, the
\* move type and the piece code of the position after its first k - 1 moves.
C9_EntryBeforeMove ==
    (game # 0 /\ Admitted(game)) =>
        /\ Len(recorded) = move_count
        /\ board = GamePositions[game][move_count]
        /\ \A k \in 1..Len(recorded) :
             LET before == GamePositions[game][k - 1]
                 m == Pool[game].moves[k]
                 e == recorded[k].entry
             IN /\ e.hash = calculate_hash(before)
                /\ e.move_type = get_move_type(before, m)
                /\ e.piece = get_piece_type(before, m.from_square)
                /\ e.source = m.from_square
                /\ e.target = m.to_square

\* C9 witness: the third move of a game has been recorded
C9_Witness ==
    /\ pc = "replay"
    /\ move_count = 3
    /\ Len(recorded) = 3
    /\ recorded[3].entry.hash # recorded[1].entry.hash

\* C10: every weight of the table is in 1..65535, and write_book_file does
\* not fail on one.
C10_WeightIsU16 ==
    /\ \A i \in 1..Len(TableEntries) : Fits(TableEntries[i].weight, 2)
    /\ pc # "OverflowError"

=============================================================================
